---- MODULE Spec2Model ----
(***************************************************************************)
(* A model of the RV32I instruction codec (utils/isa.py, utils/constants.py)*)
(* and of the architectural register file (core/regfile.py).               *)
(*                                                                         *)
(* Python integers are unbounded, TLC's are 32-bit signed.  Field values   *)
(* and immediates (all below 2^31 in magnitude) are TLC integers with      *)
(* Python's two's-complement bit operators defined on them (And, Or, Not,  *)
(* Shl, Shr).  An instruction word being assembled, which reaches 2^32-1   *)
(* and, before the final "& 0xFFFFFFFF", beyond, is the set of the         *)
(* positions of its 1 bits (ShlW, OrW, AndW, ShrW).                         *)
(***************************************************************************)
EXTENDS Integers, FiniteSets, Sequences, TLC

VARIABLES
    instr,      \* codec: the instruction object last constructed (or NoInstr)
    word,       \* codec: the 32-bit word last encoded or fetched (bit set)
    decoded,    \* codec: the Decoded object of the last decode_instr call
    pc,         \* codec: "idle" | "encoded" | "fetched" | "decoded" |
                \*   "extracted"
    imms,       \* codec: what extract_imm_i/s/b/u/j returned for word
    registers,  \* regfile: the value held by each pyrtl.Register x0..x31
    last,       \* regfile: the last operation, its inputs and what it output
    wrote0      \* regfile (history): an enabled write of a non-zero value
                \*   to address 0 has been clocked

vars == <<instr, word, decoded, pc, imms, registers, last, wrote0>>
codecVars == <<instr, word, decoded, pc, imms>>
regfileVars == <<registers, last, wrote0>>

----------------------------------------------------------------------------
(* Bounds of the model *)

\* immediates -MaxImmSpan..MaxImmSpan (times the format's step) are sampled
\* besides the one-bit and boundary patterns
MaxImmSpan == 2
\* register numbers 0..MaxRegSpan are sampled besides 10, 21 and 31
MaxRegSpan == 1
\* register-file addresses 0..MaxAddr are driven besides NUM_REGS-1
MaxAddr == 1
\* write data 0..MaxData is driven
MaxData == 1
\* get_register is called with indices up to MaxOver beyond each end
MaxOver == 2

----------------------------------------------------------------------------
(* utils/constants.py *)

NUM_REGS == 32

OPCODE_R_TYPE == 51     \* 0b0110011
OPCODE_ADDI == 19       \* 0b0010011
OPCODE_SLLI == 19
OPCODE_SLTI == 19
OPCODE_SLTIU == 19
OPCODE_XORI == 19
OPCODE_SRLI == 19
OPCODE_SRAI == 19
OPCODE_ORI == 19
OPCODE_ANDI == 19
OPCODE_LOAD == 3        \* 0b0000011
OPCODE_STORE == 35      \* 0b0100011
OPCODE_BRANCH == 99     \* 0b1100011
OPCODE_JAL == 111       \* 0b1101111
OPCODE_JALR == 103      \* 0b1100111
OPCODE_LUI == 55        \* 0b0110111
OPCODE_AUIPC == 23      \* 0b0010111

OPCODE_MASK == 127      \* 0x7F
OPCODE_SHIFT == 0
RD_MASK == 31           \* 0x1F
RD_SHIFT == 7
FUNCT3_MASK == 7
FUNCT3_SHIFT == 12
RS1_MASK == 31
RS1_SHIFT == 15
RS2_MASK == 31
RS2_SHIFT == 20
FUNCT7_MASK == 127
FUNCT7_SHIFT == 25
IMM_I_MASK == 4095      \* 0xFFF
IMM_I_SHIFT == 20
IMM_S_HI_MASK == 127
IMM_S_HI_SHIFT == 25
IMM_S_LO_MASK == 31
IMM_S_LO_SHIFT == 7
IMM_B_BIT11_MASK == 1
IMM_B_BIT11_SHIFT == 7
IMM_B_BITS10_5_MASK == 63
IMM_B_BITS10_5_SHIFT == 25
IMM_B_BITS4_1_MASK == 15
IMM_B_BITS4_1_SHIFT == 8
IMM_B_BIT12_MASK == 1
IMM_B_BIT12_SHIFT == 31
IMM_U_MASK == 1048575   \* 0xFFFFF
IMM_U_SHIFT == 12
IMM_J_BIT11_MASK == 1
IMM_J_BIT11_SHIFT == 20
IMM_J_BITS19_12_MASK == 255
IMM_J_BITS19_12_SHIFT == 12
IMM_J_BITS10_1_MASK == 1023
IMM_J_BITS10_1_SHIFT == 21
IMM_J_BIT20_MASK == 1
IMM_J_BIT20_SHIFT == 31

FUNCT3_ADD_SUB == 0
FUNCT3_SLL == 1
FUNCT3_SLT == 2
FUNCT3_SLTU == 3
FUNCT3_XOR == 4
FUNCT3_SRL_SRA == 5
FUNCT3_OR == 6
FUNCT3_AND == 7
FUNCT3_LB == 0
FUNCT3_LH == 1
FUNCT3_LW == 2
FUNCT3_LBU == 4
FUNCT3_LHU == 5
FUNCT3_SB == 0
FUNCT3_SH == 1
FUNCT3_SW == 2
FUNCT3_BEQ == 0
FUNCT3_BNE == 1
FUNCT3_BLT == 4
FUNCT3_BGE == 5
FUNCT3_BLTU == 6
FUNCT3_BGEU == 7
FUNCT7_NORMAL == 0
FUNCT7_ALT == 32        \* 0b0100000
CTRL_REG_WRITE_YES == 1

----------------------------------------------------------------------------
(* Python's integer bit operators, on integers of either sign *)

\* x >> n
Shr(x, n) == x \div (2 ^ n)

\* x << n
Shl(x, n) == x * (2 ^ n)

\* ~x
Not(x) == -x - 1

\* x & y
RECURSIVE And(_, _)
And(x, y) ==
    IF x = 0 \/ y = 0 THEN 0
    ELSE IF x = -1 THEN y
    ELSE IF y = -1 THEN x
    ELSE (x % 2) * (y % 2) + 2 * And(x \div 2, y \div 2)

\* x | y
RECURSIVE Or(_, _)
Or(x, y) ==
    IF x = 0 THEN y
    ELSE IF y = 0 THEN x
    ELSE IF x = -1 \/ y = -1 THEN -1
    ELSE (IF x % 2 = 1 \/ y % 2 = 1 THEN 1 ELSE 0) + 2 * Or(x \div 2, y \div 2)

(* The same operators on a word under assembly: the set of its 1 bits *)

\* the bits of an integer 0 <= x < 2^31
WordOf(x) == {k \in 0..30 : (x \div (2 ^ k)) % 2 = 1}

\* the integer of a bit set within 0..30
RECURSIVE IntOf(_)
IntOf(w) ==
    IF w = {} THEN 0
    ELSE LET k == CHOOSE j \in w : TRUE IN (2 ^ k) + IntOf(w \ {k})

\* x << n, for an integer x >= 0
ShlW(x, n) == {k + n : k \in WordOf(x)}

\* w >> n
ShrW(w, n) == {k - n : k \in {j \in w : j >= n}}

\* a | b
OrW(a, b) == a \cup b

\* w & m, for an integer mask m; the result is an integer
AndW(w, m) == IntOf(w \cap WordOf(m))

\* w & 0xFFFFFFFF
Mask32(w) == w \cap (0..31)

\* bit k of a word, as 0 or 1
Bit(w, k) == IF k \in w THEN 1 ELSE 0

\* bit k of an integer of either sign, as 0 or 1
IBit(x, k) == Shr(x, k) % 2

----------------------------------------------------------------------------
(* utils/isa.py: the instruction classes and their encode() *)

RType(rd, rs1, rs2, funct3, funct7, opcode) ==
    [fmt |-> "R", rd |-> rd, rs1 |-> rs1, rs2 |-> rs2,
     funct3 |-> funct3, funct7 |-> funct7, opcode |-> opcode]

IType(rd, rs1, imm, funct3, opcode) ==
    [fmt |-> "I", rd |-> rd, rs1 |-> rs1, imm |-> imm,
     funct3 |-> funct3, opcode |-> opcode]

SType(rs1, rs2, imm, funct3, opcode) ==
    [fmt |-> "S", rs1 |-> rs1, rs2 |-> rs2, imm |-> imm,
     funct3 |-> funct3, opcode |-> opcode]

BType(rs1, rs2, imm, funct3, opcode) ==
    [fmt |-> "B", rs1 |-> rs1, rs2 |-> rs2, imm |-> imm,
     funct3 |-> funct3, opcode |-> opcode]

UType(rd, imm, opcode) ==
    [fmt |-> "U", rd |-> rd, imm |-> imm, opcode |-> opcode]

JType(rd, imm, opcode) ==
    [fmt |-> "J", rd |-> rd, imm |-> imm, opcode |-> opcode]

RType_encode(self) ==
    LET i0 == WordOf(self.opcode)
        i1 == OrW(i0, ShlW(And(self.rd, RD_MASK), RD_SHIFT))
        i2 == OrW(i1, ShlW(And(self.funct3, FUNCT3_MASK), FUNCT3_SHIFT))
        i3 == OrW(i2, ShlW(And(self.rs1, RS1_MASK), RS1_SHIFT))
        i4 == OrW(i3, ShlW(And(self.rs2, RS2_MASK), RS2_SHIFT))
        i5 == OrW(i4, ShlW(And(self.funct7, FUNCT7_MASK), FUNCT7_SHIFT))
    IN  Mask32(i5)

IType_encode(self) ==
    LET i0 == WordOf(self.opcode)
        i1 == OrW(i0, ShlW(And(self.rd, RD_MASK), RD_SHIFT))
        i2 == OrW(i1, ShlW(And(self.funct3, FUNCT3_MASK), FUNCT3_SHIFT))
        i3 == OrW(i2, ShlW(And(self.rs1, RS1_MASK), RS1_SHIFT))
        i4 == OrW(i3, ShlW(And(self.imm, IMM_I_MASK), IMM_I_SHIFT))
    IN  Mask32(i4)

SType_encode(self) ==
    LET i0 == WordOf(self.opcode)
        i1 == OrW(i0, ShlW(And(self.imm, IMM_S_LO_MASK), IMM_S_LO_SHIFT))
        i2 == OrW(i1, ShlW(And(self.funct3, FUNCT3_MASK), FUNCT3_SHIFT))
        i3 == OrW(i2, ShlW(And(self.rs1, RS1_MASK), RS1_SHIFT))
        i4 == OrW(i3, ShlW(And(self.rs2, RS2_MASK), RS2_SHIFT))
        i5 == OrW(i4, ShlW(And(Shr(self.imm, 5), IMM_S_HI_MASK), IMM_S_HI_SHIFT))
    IN  Mask32(i5)

\* line 69 masks imm itself (bit 0) and line 75 shifts by 11, as written
BType_encode(self) ==
    LET i0 == WordOf(self.opcode)
        i1 == OrW(i0, ShlW(And(self.imm, IMM_B_BIT11_MASK), IMM_B_BIT11_SHIFT))
        i2 == OrW(i1, ShlW(And(Shr(self.imm, 1), IMM_B_BITS4_1_MASK), IMM_B_BITS4_1_SHIFT))
        i3 == OrW(i2, ShlW(And(self.funct3, FUNCT3_MASK), FUNCT3_SHIFT))
        i4 == OrW(i3, ShlW(And(self.rs1, RS1_MASK), RS1_SHIFT))
        i5 == OrW(i4, ShlW(And(self.rs2, RS2_MASK), RS2_SHIFT))
        i6 == OrW(i5, ShlW(And(Shr(self.imm, 5), IMM_B_BITS10_5_MASK), IMM_B_BITS10_5_SHIFT))
        i7 == OrW(i6, ShlW(And(Shr(self.imm, 11), IMM_B_BIT12_MASK), IMM_B_BIT12_SHIFT))
    IN  Mask32(i7)

UType_encode(self) ==
    LET i0 == WordOf(self.opcode)
        i1 == OrW(i0, ShlW(And(self.rd, RD_MASK), RD_SHIFT))
        i2 == OrW(i1, ShlW(And(self.imm, IMM_U_MASK), IMM_U_SHIFT))
    IN  Mask32(i2)

\* line 99 masks imm itself (bits 7:0), as written
JType_encode(self) ==
    LET i0 == WordOf(self.opcode)
        i1 == OrW(i0, ShlW(And(self.rd, RD_MASK), RD_SHIFT))
        i2 == OrW(i1, ShlW(And(self.imm, IMM_J_BITS19_12_MASK), IMM_J_BITS19_12_SHIFT))
        i3 == OrW(i2, ShlW(And(Shr(self.imm, 11), IMM_J_BIT11_MASK), IMM_J_BIT11_SHIFT))
        i4 == OrW(i3, ShlW(And(Shr(self.imm, 1), IMM_J_BITS10_1_MASK), IMM_J_BITS10_1_SHIFT))
        i5 == OrW(i4, ShlW(And(Shr(self.imm, 20), IMM_J_BIT20_MASK), IMM_J_BIT20_SHIFT))
    IN  Mask32(i5)

\* instr.encode(): dispatch on the object's class
encode(self) ==
    CASE self.fmt = "R" -> RType_encode(self)
      [] self.fmt = "I" -> IType_encode(self)
      [] self.fmt = "S" -> SType_encode(self)
      [] self.fmt = "B" -> BType_encode(self)
      [] self.fmt = "U" -> UType_encode(self)
      [] self.fmt = "J" -> JType_encode(self)

----------------------------------------------------------------------------
(* utils/constants.py: sign_extend;  utils/isa.py: the extractors *)

\* sign_extend with the sign bit taken at 1 << nbits
sign_extend_SignBitOff(value, nbits) ==
    LET sign_bit == Shl(1, nbits)
        mask == Shl(1, nbits) - 1
        v == And(value, mask)
    IN  IF And(v, sign_bit) # 0 THEN Or(v, Not(mask)) ELSE v

sign_extend(value, nbits) ==
    LET sign_bit == Shl(1, nbits - 1)
        mask == Shl(1, nbits) - 1
        v == And(value, mask)
    IN  IF And(v, sign_bit) # 0 THEN Or(v, Not(mask)) ELSE v

extract_opcode(w) == AndW(ShrW(w, OPCODE_SHIFT), OPCODE_MASK)

extract_rd(w) == AndW(ShrW(w, RD_SHIFT), RD_MASK)

extract_rs1(w) == AndW(ShrW(w, RS1_SHIFT), RS1_MASK)

extract_rs2(w) == AndW(ShrW(w, RS2_SHIFT), RS2_MASK)

extract_funct3(w) == AndW(ShrW(w, FUNCT3_SHIFT), FUNCT3_MASK)

extract_funct7(w) == AndW(ShrW(w, FUNCT7_SHIFT), FUNCT7_MASK)

extract_imm_i(w) ==
    LET imm == AndW(ShrW(w, IMM_I_SHIFT), IMM_I_MASK)
    IN  sign_extend(imm, 12)

extract_imm_s(w) ==
    LET imm_lo == AndW(ShrW(w, IMM_S_LO_SHIFT), IMM_S_LO_MASK)
        imm_hi == AndW(ShrW(w, IMM_S_HI_SHIFT), IMM_S_HI_MASK)
        imm == Or(Shl(imm_hi, 5), imm_lo)
    IN  sign_extend(imm, 12)

extract_imm_b(w) ==
    LET bit11 == AndW(ShrW(w, IMM_B_BIT11_SHIFT), IMM_B_BIT11_MASK)
        bits10_5 == AndW(ShrW(w, IMM_B_BITS10_5_SHIFT), IMM_B_BITS10_5_MASK)
        bits4_1 == AndW(ShrW(w, IMM_B_BITS4_1_SHIFT), IMM_B_BITS4_1_MASK)
        bit12 == AndW(ShrW(w, IMM_B_BIT12_SHIFT), IMM_B_BIT12_MASK)
        imm == Or(Or(Or(Shl(bit12, 12), Shl(bit11, 11)), Shl(bits10_5, 5)), Shl(bits4_1, 1))
    IN  sign_extend(imm, 13)

extract_imm_u(w) == AndW(ShrW(w, IMM_U_SHIFT), IMM_U_MASK)

extract_imm_j(w) ==
    LET bits19_12 == AndW(ShrW(w, IMM_J_BITS19_12_SHIFT), IMM_J_BITS19_12_MASK)
        bit11 == AndW(ShrW(w, IMM_J_BIT11_SHIFT), IMM_J_BIT11_MASK)
        bits10_1 == AndW(ShrW(w, IMM_J_BITS10_1_SHIFT), IMM_J_BITS10_1_MASK)
        bit20 == AndW(ShrW(w, IMM_J_BIT20_SHIFT), IMM_J_BIT20_MASK)
        imm == Or(Or(Or(Shl(bit20, 20), Shl(bits19_12, 12)), Shl(bit11, 11)), Shl(bits10_1, 1))
    IN  sign_extend(imm, 21)

----------------------------------------------------------------------------
(* utils/isa.py: Decoded, get_mnemonic, decode_instr *)

\* Decoded.__init__
Decoded ==
    [opcode |-> 0, rd |-> 0, rs1 |-> 0, rs2 |-> 0, funct3 |-> 0,
     funct7 |-> 0, imm |-> 0, type |-> "", mnemonic |-> ""]

\* The dict literal of get_mnemonic in source order.  A key written twice
\* keeps the value written last, as a Python dict literal does.
mnemonic_entries ==
    << <<OPCODE_R_TYPE, FUNCT3_ADD_SUB, FUNCT7_NORMAL, "ADD">>,
       <<OPCODE_R_TYPE, FUNCT3_ADD_SUB, FUNCT7_ALT, "SUB">>,
       <<OPCODE_R_TYPE, FUNCT3_SLL, FUNCT7_NORMAL, "SLL">>,
       <<OPCODE_R_TYPE, FUNCT3_SLT, FUNCT7_NORMAL, "SLT">>,
       <<OPCODE_R_TYPE, FUNCT3_SLTU, FUNCT7_NORMAL, "SLTU">>,
       <<OPCODE_R_TYPE, FUNCT3_XOR, FUNCT7_NORMAL, "XOR">>,
       <<OPCODE_R_TYPE, FUNCT3_SRL_SRA, FUNCT7_NORMAL, "SRL">>,
       <<OPCODE_R_TYPE, FUNCT3_SRL_SRA, FUNCT7_ALT, "SRA">>,
       <<OPCODE_R_TYPE, FUNCT3_OR, FUNCT7_NORMAL, "OR">>,
       <<OPCODE_R_TYPE, FUNCT3_AND, FUNCT7_NORMAL, "AND">>,
       <<OPCODE_ADDI, FUNCT3_ADD_SUB, 0, "ADDI">>,
       <<OPCODE_SLLI, FUNCT3_SLL, 0, "SLLI">>,
       <<OPCODE_SLTI, FUNCT3_SLT, 0, "SLTI">>,
       <<OPCODE_SLTIU, FUNCT3_SLTU, 0, "SLTIU">>,
       <<OPCODE_XORI, FUNCT3_XOR, 0, "XORI">>,
       <<OPCODE_SRLI, FUNCT3_SRL_SRA, 0, "SRLI">>,
       <<OPCODE_SRAI, FUNCT3_SRL_SRA, 0, "SRAI">>,
       <<OPCODE_ORI, FUNCT3_OR, 0, "ORI">>,
       <<OPCODE_ANDI, FUNCT3_AND, 0, "ANDI">>,
       <<OPCODE_LOAD, FUNCT3_LB, 0, "LB">>,
       <<OPCODE_LOAD, FUNCT3_LH, 0, "LH">>,
       <<OPCODE_LOAD, FUNCT3_LW, 0, "LW">>,
       <<OPCODE_LOAD, FUNCT3_LBU, 0, "LBU">>,
       <<OPCODE_LOAD, FUNCT3_LHU, 0, "LHU">>,
       <<OPCODE_STORE, FUNCT3_SB, 0, "SB">>,
       <<OPCODE_STORE, FUNCT3_SH, 0, "SH">>,
       <<OPCODE_STORE, FUNCT3_SW, 0, "SW">>,
       <<OPCODE_BRANCH, FUNCT3_BEQ, 0, "BEQ">>,
       <<OPCODE_BRANCH, FUNCT3_BNE, 0, "BNE">>,
       <<OPCODE_BRANCH, FUNCT3_BLT, 0, "BLT">>,
       <<OPCODE_BRANCH, FUNCT3_BGE, 0, "BGE">>,
       <<OPCODE_BRANCH, FUNCT3_BLTU, 0, "BLTU">>,
       <<OPCODE_BRANCH, FUNCT3_BGEU, 0, "BGEU">>,
       <<OPCODE_JAL, 0, 0, "JAL">>,
       <<OPCODE_JALR, FUNCT3_ADD_SUB, 0, "JALR">>,
       <<OPCODE_LUI, 0, 0, "LUI">>,
       <<OPCODE_AUIPC, 0, 0, "AUIPC">> >>

\* mnemonic_map.get(key): the default left out, None for a missing key
mnemonic_map_get_NoDefault(key) ==
    LET hits == {i \in 1..Len(mnemonic_entries) :
                    <<mnemonic_entries[i][1], mnemonic_entries[i][2],
                      mnemonic_entries[i][3]>> = key}
    IN  IF hits = {} THEN "None"
        ELSE mnemonic_entries[CHOOSE i \in hits : \A j \in hits : j <= i][4]

\* mnemonic_map.get(key, "UNKNOWN")
mnemonic_map_get(key) ==
    LET hits == {i \in 1..Len(mnemonic_entries) :
                    <<mnemonic_entries[i][1], mnemonic_entries[i][2],
                      mnemonic_entries[i][3]>> = key}
    IN  IF hits = {} THEN "UNKNOWN"
        ELSE mnemonic_entries[CHOOSE i \in hits : \A j \in hits : j <= i][4]

get_mnemonic(d) ==
    LET opcode == d.opcode
        funct3 == d.funct3
        funct7 == IF d.type = "R" THEN d.funct7 ELSE 0
    IN  mnemonic_map_get(<<opcode, funct3, funct7>>)

\* the opcodes of decode_instr's I-type branch (line 185)
I_TYPE_OPCODES ==
    {OPCODE_ADDI, OPCODE_ANDI, OPCODE_ORI, OPCODE_XORI, OPCODE_SLTI,
     OPCODE_SLTIU, OPCODE_SLLI, OPCODE_SRLI, OPCODE_SRAI, OPCODE_JALR,
     OPCODE_LOAD}

decode_instr(w) ==
    LET d0 == [Decoded EXCEPT !.opcode = extract_opcode(w),
                              !.rd = extract_rd(w),
                              !.rs1 = extract_rs1(w),
                              !.rs2 = extract_rs2(w),
                              !.funct3 = extract_funct3(w),
                              !.funct7 = extract_funct7(w)]
        d1 == IF d0.opcode = OPCODE_R_TYPE
                 THEN [d0 EXCEPT !.type = "R"]
              ELSE IF d0.opcode \in I_TYPE_OPCODES
                 THEN [d0 EXCEPT !.type = "I", !.imm = extract_imm_i(w)]
              ELSE IF d0.opcode = OPCODE_STORE
                 THEN [d0 EXCEPT !.type = "S", !.imm = extract_imm_s(w)]
              ELSE IF d0.opcode = OPCODE_BRANCH
                 THEN [d0 EXCEPT !.type = "B", !.imm = extract_imm_b(w)]
              ELSE IF d0.opcode \in {OPCODE_LUI, OPCODE_AUIPC}
                 THEN [d0 EXCEPT !.type = "U", !.imm = extract_imm_u(w)]
              ELSE IF d0.opcode = OPCODE_JAL
                 THEN [d0 EXCEPT !.type = "J", !.imm = extract_imm_j(w)]
              ELSE d0
    IN  [d1 EXCEPT !.mnemonic = get_mnemonic(d1)]

----------------------------------------------------------------------------
(* The values the codec is driven with *)

\* register numbers: a window at 0, the two alternating patterns, all ones
RegSample == (0..MaxRegSpan) \cup {10, 21, NUM_REGS - 1}

Funct3Sample == 0..FUNCT3_MASK

\* funct7: both table values, the two alternating patterns, all ones
Funct7Sample == {FUNCT7_NORMAL, FUNCT7_ALT, 42, 85, FUNCT7_MASK}

\* signed immediates of width w: every single bit, every -(2^k), the largest
\* value, the largest even value, and a window around 0
SignedSample(w) ==
    {2 ^ k : k \in 0..(w - 2)}
    \cup {-(2 ^ k) : k \in 0..(w - 1)}
    \cup {(2 ^ (w - 1)) - 1, (2 ^ (w - 1)) - 2}
    \cup ((-MaxImmSpan)..MaxImmSpan)

ImmISample == SignedSample(12)

\* odd values too: BType and JType accept them
ImmBSample == SignedSample(13)

ImmJSample == SignedSample(21)

\* unsigned 20-bit immediates: every single bit, all ones, a window at 0
ImmUSample ==
    {2 ^ k : k \in 0..19} \cup {IMM_U_MASK} \cup (0..MaxImmSpan)

\* bits 31:7 of a fetched word: none, each alone, all, and alternating
UpperSample ==
    {{}} \cup {{k} : k \in 7..31} \cup {7..31}
    \cup {{k \in 7..31 : k % 2 = 0}, {k \in 7..31 : k % 2 = 1}}

OpcodeSample == 0..OPCODE_MASK

\* the opcodes decode_instr recognises
RecognisedOpcodes ==
    {OPCODE_R_TYPE, OPCODE_STORE, OPCODE_BRANCH, OPCODE_LUI, OPCODE_AUIPC,
     OPCODE_JAL} \cup I_TYPE_OPCODES

----------------------------------------------------------------------------
(* The codec as a state machine: construct and encode, or fetch; decode *)

NoInstr == [fmt |-> "none"]

\* no extractor has been called
NoImms == [i |-> 0, s |-> 0, b |-> 0, u |-> 0, j |-> 0]

\* instr = <Class>(...); word = instr.encode().  The codec keeps no state
\* between calls: every run is one construction or fetch, then one decode.
Encode(i) ==
    /\ instr' = i
    /\ word' = encode(i)
    /\ decoded' = Decoded
    /\ imms' = NoImms
    /\ pc' = "encoded"
    /\ UNCHANGED regfileVars

EncodeR ==
    /\ pc = "idle"
    /\ \E rd \in RegSample, rs1 \in RegSample, rs2 \in RegSample,
       funct3 \in Funct3Sample, funct7 \in Funct7Sample :
        Encode(RType(rd, rs1, rs2, funct3, funct7, OPCODE_R_TYPE))

EncodeI ==
    /\ pc = "idle"
    /\ \E rd \in RegSample, rs1 \in RegSample, imm \in ImmISample,
       funct3 \in Funct3Sample, opcode \in I_TYPE_OPCODES :
        Encode(IType(rd, rs1, imm, funct3, opcode))

EncodeS ==
    /\ pc = "idle"
    /\ \E rs1 \in RegSample, rs2 \in RegSample, imm \in ImmISample,
       funct3 \in Funct3Sample :
        Encode(SType(rs1, rs2, imm, funct3, OPCODE_STORE))

EncodeB ==
    /\ pc = "idle"
    /\ \E rs1 \in RegSample, rs2 \in RegSample, imm \in ImmBSample,
       funct3 \in Funct3Sample :
        Encode(BType(rs1, rs2, imm, funct3, OPCODE_BRANCH))

EncodeU ==
    /\ pc = "idle"
    /\ \E rd \in RegSample, imm \in ImmUSample,
       opcode \in {OPCODE_LUI, OPCODE_AUIPC} :
        Encode(UType(rd, imm, opcode))

EncodeJ ==
    /\ pc = "idle"
    /\ \E rd \in RegSample, imm \in ImmJSample :
        Encode(JType(rd, imm, OPCODE_JAL))

\* a raw word arrives from upstream
Fetch ==
    /\ pc = "idle"
    /\ \E opcode \in OpcodeSample, upper \in UpperSample :
        /\ instr' = NoInstr
        /\ word' = OrW(WordOf(opcode), upper)
        /\ decoded' = Decoded
        /\ imms' = NoImms
        /\ pc' = "fetched"
        /\ UNCHANGED regfileVars

\* decoded = decode_instr(word)
Decode ==
    /\ pc \in {"encoded", "fetched"}
    /\ decoded' = decode_instr(word)
    /\ pc' = "decoded"
    /\ UNCHANGED <<instr, word, imms>>
    /\ UNCHANGED regfileVars

\* the five immediate extractors, each called on word
ExtractImms ==
    /\ pc \in {"encoded", "fetched"}
    /\ imms' = [i |-> extract_imm_i(word), s |-> extract_imm_s(word),
                b |-> extract_imm_b(word), u |-> extract_imm_u(word),
                j |-> extract_imm_j(word)]
    /\ pc' = "extracted"
    /\ UNCHANGED <<instr, word, decoded>>
    /\ UNCHANGED regfileVars

----------------------------------------------------------------------------
(* core/regfile.py *)

RegIdx == 0..(NUM_REGS - 1)

\* pyrtl.mux(addr, x0..x31), then pyrtl.select(addr == 0, Const(0), ...)
read_register(addr) ==
    LET read_value == registers[addr]
    IN  IF addr = 0 THEN 0 ELSE read_value

\* write_register without the (i != 0) term of its condition
write_register_NoZeroGuard(rd_addr, rd_data, rd_we) ==
    [i \in RegIdx |->
        IF rd_we = CTRL_REG_WRITE_YES /\ rd_addr = i
            THEN rd_data
            ELSE registers[i]]

\* the value of every register after the clock edge: x_i.next is rd_data
\* under its condition, and a register with no assignment keeps its value
write_register(rd_addr, rd_data, rd_we) ==
    [i \in RegIdx |->
        IF rd_we = CTRL_REG_WRITE_YES /\ rd_addr = i /\ i # 0
            THEN rd_data
            ELSE registers[i]]

\* self.registers[index] on a Python list of NUM_REGS cells: a negative
\* index counts from the end, anything else outside raises IndexError
list_index(index) ==
    IF 0 <= index /\ index < NUM_REGS
        THEN [raised |-> FALSE, cell |-> index]
    ELSE IF -NUM_REGS <= index /\ index < 0
        THEN [raised |-> FALSE, cell |-> NUM_REGS + index]
    ELSE [raised |-> TRUE, cell |-> -1]

\* get_register without the (index < 0) test
get_register_NoNegativeCheck(index) ==
    IF index >= NUM_REGS
        THEN [raised |-> TRUE, cell |-> -1]
        ELSE list_index(index)

\* the call's outcome: raised, or the cell (its position in self.registers)
get_register(index) ==
    IF index < 0 \/ index >= NUM_REGS
        THEN [raised |-> TRUE, cell |-> -1]
        ELSE list_index(index)

\* the addresses and data the ports are driven with
AddrSample == (0..MaxAddr) \cup {NUM_REGS - 1}

DataSample == 0..MaxData

IndexSample ==
    ((-MaxOver)..(-1)) \cup AddrSample
    \cup (NUM_REGS..(NUM_REGS + MaxOver - 1)) \cup {-NUM_REGS}

\* Step with rs1_data wired to read_register(rs2_addr)
Step_CrossWired(rs1_addr, rs2_addr, rd_addr, rd_data, rd_we) ==
    /\ last' = [op |-> "step",
                rs1_addr |-> rs1_addr, rs2_addr |-> rs2_addr,
                rd_addr |-> rd_addr, rd_data |-> rd_data, rd_we |-> rd_we,
                rs1_data |-> read_register(rs2_addr),
                rs2_data |-> read_register(rs2_addr)]
    /\ registers' = write_register(rd_addr, rd_data, rd_we)
    /\ wrote0' = (wrote0 \/ (rd_we = 1 /\ rd_addr = 0 /\ rd_data # 0))
    /\ UNCHANGED codecVars

\* Step with the write forwarded to the read ports (read after the edge)
Step_WriteFirst(rs1_addr, rs2_addr, rd_addr, rd_data, rd_we) ==
    /\ registers' = write_register(rd_addr, rd_data, rd_we)
    /\ last' = [op |-> "step",
                rs1_addr |-> rs1_addr, rs2_addr |-> rs2_addr,
                rd_addr |-> rd_addr, rd_data |-> rd_data, rd_we |-> rd_we,
                rs1_data |-> IF rs1_addr = 0 THEN 0 ELSE registers'[rs1_addr],
                rs2_data |-> IF rs2_addr = 0 THEN 0 ELSE registers'[rs2_addr]]
    /\ wrote0' = (wrote0 \/ (rd_we = 1 /\ rd_addr = 0 /\ rd_data # 0))
    /\ UNCHANGED codecVars

\* one simulated clock cycle: the outputs are driven from the registers as
\* they are before the edge (create_ports), then the edge stores the write
Step(rs1_addr, rs2_addr, rd_addr, rd_data, rd_we) ==
    /\ last' = [op |-> "step",
                rs1_addr |-> rs1_addr, rs2_addr |-> rs2_addr,
                rd_addr |-> rd_addr, rd_data |-> rd_data, rd_we |-> rd_we,
                rs1_data |-> read_register(rs1_addr),
                rs2_data |-> read_register(rs2_addr)]
    /\ registers' = write_register(rd_addr, rd_data, rd_we)
    /\ wrote0' = (wrote0 \/ (rd_we = 1 /\ rd_addr = 0 /\ rd_data # 0))
    /\ UNCHANGED codecVars

Cycle ==
    \E rs1_addr \in AddrSample, rs2_addr \in AddrSample,
       rd_addr \in AddrSample, rd_data \in DataSample, rd_we \in {0, 1} :
        Step(rs1_addr, rs2_addr, rd_addr, rd_data, rd_we)

GetRegister ==
    \E index \in IndexSample :
        LET r == get_register(index)
        IN  /\ last' = [op |-> "get", index |-> index,
                        raised |-> r.raised, cell |-> r.cell]
            /\ UNCHANGED <<registers, wrote0>>
            /\ UNCHANGED codecVars

----------------------------------------------------------------------------
(* The specifications *)

\* no instruction yet; RegFile.__init__ and the simulation's reset: every
\* register holds 0
Init ==
    /\ instr = NoInstr
    /\ word = {}
    /\ decoded = Decoded
    /\ imms = NoImms
    /\ pc = "idle"
    /\ registers = [i \in RegIdx |-> 0]
    /\ last = [op |-> "init"]
    /\ wrote0 = FALSE

CodecNext ==
    \/ EncodeR
    \/ EncodeI
    \/ EncodeS
    \/ EncodeB
    \/ EncodeU
    \/ EncodeJ
    \/ Fetch
    \/ Decode
    \/ ExtractImms

RegFileNext ==
    \/ Cycle
    \/ GetRegister

CodecSpec == Init /\ [][CodecNext]_vars

RegFileSpec == Init /\ [][RegFileNext]_vars

----------------------------------------------------------------------------
(* Claims about the codec, under CodecSpec *)

\* the fields an instruction class declares
FieldsOf(i) == DOMAIN i \ {"fmt"}

\* the value whose bits are bits lo+width-1..lo of word w
RawField(w, lo, width) ==
    CHOOSE v \in 0..((2 ^ width) - 1) :
        \A k \in 0..(width - 1) : IBit(v, k) = Bit(w, lo + k)

\* the field values the round trip is claimed for
ValidInstr(i) ==
    /\ i.fmt \in {"R", "I", "S", "B", "U", "J"}
    /\ \A f \in FieldsOf(i) \cap {"rd", "rs1", "rs2"} : i[f] \in 0..31
    /\ i.fmt \in {"R", "I", "S", "B"} => i.funct3 \in 0..7
    /\ i.fmt = "R" => i.funct7 \in 0..127
    /\ i.fmt \in {"I", "S"} => i.imm \in (-2048)..2047
    /\ i.fmt = "B" => i.imm \in (-4096)..4094 /\ i.imm % 2 = 0
    /\ i.fmt = "U" => i.imm \in 0..((2 ^ 20) - 1)
    /\ i.fmt = "J" => i.imm \in (-(2 ^ 20))..((2 ^ 20) - 2) /\ i.imm % 2 = 0
    /\ i.fmt = "R" => i.opcode = OPCODE_R_TYPE
    /\ i.fmt = "I" => i.opcode \in I_TYPE_OPCODES
    /\ i.fmt = "S" => i.opcode = OPCODE_STORE
    /\ i.fmt = "B" => i.opcode = OPCODE_BRANCH
    /\ i.fmt = "U" => i.opcode \in {OPCODE_LUI, OPCODE_AUIPC}
    /\ i.fmt = "J" => i.opcode = OPCODE_JAL

\* C1: decoding the encoding of a valid instruction of any format returns
\* every field of the instruction unchanged.
C1_RoundTrip ==
    (pc = "decoded" /\ ValidInstr(instr)) =>
        \A f \in FieldsOf(instr) : decoded[f] = instr[f]

\* C2: BType.encode puts imm[12] in bit 31, imm[11] in bit 7, imm[10:5] in
\* bits 30:25 and imm[4:1] in bits 11:8 of the word, and stores imm[0]
\* nowhere (the word is that of the same instruction with imm[0] cleared).
C2_BImmLayout ==
    (pc \in {"encoded", "decoded"} /\ instr.fmt = "B") =>
        /\ Bit(word, 31) = IBit(instr.imm, 12)
        /\ Bit(word, 7) = IBit(instr.imm, 11)
        /\ \A k \in 5..10 : Bit(word, 20 + k) = IBit(instr.imm, k)
        /\ \A k \in 1..4 : Bit(word, 7 + k) = IBit(instr.imm, k)
        /\ word = encode([instr EXCEPT !.imm = instr.imm - (instr.imm % 2)])

\* C3: JType.encode puts imm[20] in bit 31, imm[19:12] in bits 19:12,
\* imm[11] in bit 20 and imm[10:1] in bits 30:21 of the word, and stores
\* imm[0] nowhere.
C3_JImmLayout ==
    (pc \in {"encoded", "decoded"} /\ instr.fmt = "J") =>
        /\ Bit(word, 31) = IBit(instr.imm, 20)
        /\ \A k \in 12..19 : Bit(word, k) = IBit(instr.imm, k)
        /\ Bit(word, 20) = IBit(instr.imm, 11)
        /\ \A k \in 1..10 : Bit(word, 20 + k) = IBit(instr.imm, k)
        /\ word = encode([instr EXCEPT !.imm = instr.imm - (instr.imm % 2)])

\* C7: decoding a word whose opcode (bits 6:0) is not recognised gives the
\* empty type tag, imm 0, mnemonic "UNKNOWN", and rd, rs1, rs2, funct3 and
\* funct7 equal to the word's bits 11:7, 19:15, 24:20, 14:12 and 31:25.
C7_UnknownOpcode ==
    (pc = "decoded" /\ RawField(word, 0, 7) \notin RecognisedOpcodes) =>
        /\ decoded.type = ""
        /\ decoded.imm = 0
        /\ decoded.mnemonic = "UNKNOWN"
        /\ decoded.opcode = RawField(word, 0, 7)
        /\ decoded.rd = RawField(word, 7, 5)
        /\ decoded.funct3 = RawField(word, 12, 3)
        /\ decoded.rs1 = RawField(word, 15, 5)
        /\ decoded.rs2 = RawField(word, 20, 5)
        /\ decoded.funct7 = RawField(word, 25, 7)

\* C7's case: a fetched word with an unrecognised opcode and bits set in
\* every field above it has been decoded
C7_Witness ==
    /\ pc = "decoded"
    /\ instr = NoInstr
    /\ decoded.opcode \notin RecognisedOpcodes
    /\ decoded.mnemonic = "UNKNOWN"
    /\ decoded.rd # 0 /\ decoded.rs1 # 0 /\ decoded.rs2 # 0
    /\ decoded.funct3 # 0 /\ decoded.funct7 # 0

\* C9: an encoded JAL decodes to type "J" and mnemonic "JAL" whatever its rd
\* and (valid) immediate, and an encoded LUI / AUIPC to type "U" and
\* mnemonic "LUI" / "AUIPC".
C9_JumpUpperMnemonic ==
    (pc = "decoded" /\ ValidInstr(instr)) =>
        /\ instr.fmt = "J" =>
              decoded.type = "J" /\ decoded.mnemonic = "JAL"
        /\ (instr.fmt = "U" /\ instr.opcode = OPCODE_LUI) =>
              decoded.type = "U" /\ decoded.mnemonic = "LUI"
        /\ (instr.fmt = "U" /\ instr.opcode = OPCODE_AUIPC) =>
              decoded.type = "U" /\ decoded.mnemonic = "AUIPC"

\* one word for each recognised opcode, funct3 and funct7 in {0, 0100000};
\* the resolved mnemonic reads nothing else of a word
TableWords ==
    {OrW(WordOf(op), OrW(ShlW(f3, FUNCT3_SHIFT), ShlW(f7, FUNCT7_SHIFT))) :
        op \in RecognisedOpcodes, f3 \in 0..7, f7 \in {FUNCT7_NORMAL, FUNCT7_ALT}}

\* the mnemonics written in get_mnemonic's table
TableMnemonics ==
    {mnemonic_entries[i][4] : i \in 1..Len(mnemonic_entries)}

AllResolved ==
    \A m \in TableMnemonics : \E w \in TableWords : decode_instr(w).mnemonic = m

\* C10: every mnemonic written in the table is the resolution of some word;
\* an OP-IMM word with funct3 = 101 resolves to "SRLI" when its imm[11:5] is
\* 0000000 and to "SRAI" when it is 0100000.
C10_MnemonicCoverage ==
    (pc = "decoded" /\ decoded.opcode = OPCODE_SRLI
        /\ decoded.funct3 = FUNCT3_SRL_SRA) =>
        /\ RawField(word, 25, 7) = FUNCT7_NORMAL => decoded.mnemonic = "SRLI"
        /\ RawField(word, 25, 7) = FUNCT7_ALT => decoded.mnemonic = "SRAI"
        /\ AllResolved

----------------------------------------------------------------------------
(* Claims about the register file, under RegFileSpec *)

\* C4: in every cycle, a read port addressed at 0 outputs 0, whatever has
\* been written, writes to address 0 included.
C4_ZeroRegister ==
    last.op = "step" =>
        /\ last.rs1_addr = 0 => last.rs1_data = 0
        /\ last.rs2_addr = 0 => last.rs2_data = 0

\* C4's case: after an earlier cycle clocked an enabled write of a non-zero
\* value to address 0, a cycle that does not write it reads address 0 on
\* both ports
C4_Witness ==
    /\ wrote0
    /\ last.op = "step"
    /\ ~(last.rd_we = 1 /\ last.rd_addr = 0)
    /\ last.rs1_addr = 0 /\ last.rs2_addr = 0
    /\ last.rs1_data = 0 /\ last.rs2_data = 0

\* C5: in a cycle that writes v to a # 0, a read port addressed at a outputs
\* the value cell a held before the cycle; in the cycle after it, a read
\* port addressed at a outputs v.
C5_WriteThenRead ==
    [][last'.op = "step" =>
        /\ (last'.rd_we = 1 /\ last'.rd_addr # 0) =>
              /\ last'.rs1_addr = last'.rd_addr =>
                    last'.rs1_data = registers[last'.rd_addr]
              /\ last'.rs2_addr = last'.rd_addr =>
                    last'.rs2_data = registers[last'.rd_addr]
        /\ (last.op = "step" /\ last.rd_we = 1 /\ last.rd_addr # 0) =>
              /\ last'.rs1_addr = last.rd_addr =>
                    last'.rs1_data = last.rd_data
              /\ last'.rs2_addr = last.rd_addr =>
                    last'.rs2_data = last.rd_data]_vars

\* C5's case: a cycle wrote v to a # 0 while port rs1 read a, the port put
\* out another, non-zero value (one an earlier cycle wrote), and cell a now
\* holds v
C5_Witness ==
    /\ last.op = "step"
    /\ last.rd_we = 1 /\ last.rd_addr # 0
    /\ last.rs1_addr = last.rd_addr
    /\ last.rs1_data # last.rd_data /\ last.rs1_data # 0
    /\ registers[last.rd_addr] = last.rd_data

\* C6: a cycle with rd_we = 0 or rd_addr = 0 changes no cell; a cycle with
\* rd_we = 1 and rd_addr = a # 0 makes cell a rd_data and changes no other
\* cell.  The read addresses play no part.
C6_WriteFrame ==
    [][last'.op = "step" =>
        IF last'.rd_we = 1 /\ last'.rd_addr # 0
            THEN registers' = [registers EXCEPT ![last'.rd_addr] = last'.rd_data]
            ELSE registers' = registers]_vars

\* C6's case: a cycle wrote a cell while another cell held, and still
\* holds, a different non-zero value, the read ports addressed elsewhere
C6_Witness ==
    /\ last.op = "step"
    /\ last.rd_we = 1 /\ last.rd_addr # 0
    /\ registers[last.rd_addr] = last.rd_data
    /\ last.rs1_addr # last.rd_addr /\ last.rs2_addr # last.rd_addr
    /\ \E j \in RegIdx \ {last.rd_addr} :
          registers[j] # 0 /\ registers[j] # last.rd_data

\* C8: get_register raises for every index outside 0..31 and changes no
\* cell; for an index in 0..31 it returns the cell at that position of the
\* register list, the one the write and read ports address by that number.
C8_GetRegister ==
    [][last'.op = "get" =>
        /\ registers' = registers
        /\ IF last'.index \in 0..31
              THEN ~last'.raised /\ last'.cell = last'.index
              ELSE last'.raised]_vars

\* C8's case: with a written register file, get_register was called with a
\* negative index and raised
C8_Witness ==
    /\ last.op = "get"
    /\ last.index < 0
    /\ last.raised
    /\ \E j \in RegIdx : registers[j] # 0


----------------------------------------------------------------------------
(* Claim about the immediate extractors, under CodecSpec *)

\* the pattern whose bit k-1 is bit src[k] of word w, or 0 where src[k] = -1
RECURSIVE PatternFrom(_, _, _)
PatternFrom(w, src, k) ==
    IF k > Len(src) THEN 0
    ELSE (IF src[k] \in w THEN 2 ^ (k - 1) ELSE 0) + PatternFrom(w, src, k + 1)

\* the word bits holding each format's immediate, from imm[0] up, as the
\* layout of the formats gives them
LayoutI == <<20, 21, 22, 23, 24, 25, 26, 27, 28, 29, 30, 31>>

LayoutS == <<7, 8, 9, 10, 11, 25, 26, 27, 28, 29, 30, 31>>

LayoutB == <<-1, 8, 9, 10, 11, 25, 26, 27, 28, 29, 30, 7, 31>>

LayoutU ==
    <<12, 13, 14, 15, 16, 17, 18, 19, 20, 21, 22, 23, 24, 25, 26, 27, 28,
      29, 30, 31>>

LayoutJ ==
    <<-1, 21, 22, 23, 24, 25, 26, 27, 28, 29, 30, 20, 12, 13, 14, 15, 16,
      17, 18, 19, 31>>

\* the two's-complement value of a pattern p of n bits
Signed(p, n) == IF p < 2 ^ (n - 1) THEN p ELSE p - (2 ^ n)

\* C11: on every word, extract_imm_i and extract_imm_s return the 12-bit
\* pattern p as p below 2048 and p - 4096 from there; extract_imm_b the
\* 13-bit pattern {w[31], w[7], w[30:25], w[11:8], 0} less 8192 when w[31]
\* is set; extract_imm_j the 21-bit pattern {w[31], w[19:12], w[20],
\* w[30:21], 0} less 2^21 when w[31] is set; extract_imm_u w[31:12]
\* unsigned.  The B and J results are even.
C11_ImmExtract ==
    pc = "extracted" =>
        /\ imms.i = Signed(PatternFrom(word, LayoutI, 1), 12)
        /\ imms.s = Signed(PatternFrom(word, LayoutS, 1), 12)
        /\ imms.b = PatternFrom(word, LayoutB, 1)
                        - (IF 31 \in word THEN 8192 ELSE 0)
        /\ imms.j = PatternFrom(word, LayoutJ, 1)
                        - (IF 31 \in word THEN 2 ^ 21 ELSE 0)
        /\ imms.u = PatternFrom(word, LayoutU, 1)
        /\ imms.u \in 0..((2 ^ 20) - 1)
        /\ imms.b % 2 = 0 /\ imms.j % 2 = 0
        /\ PatternFrom(word, LayoutI, 1) = 4095 => imms.i = -1

\* C11's case: the extractors ran on a fetched word whose bits 31:7 are all
\* set: the I pattern is 0xFFF and every signed result is negative
C11_Witness ==
    /\ pc = "extracted"
    /\ instr = NoInstr
    /\ (7..31) \subseteq word
    /\ imms.i = -1 /\ imms.s = -1 /\ imms.b = -2 /\ imms.j = -2
    /\ imms.u = IMM_U_MASK

====
